---- MODULE Spec2Model ----
(***************************************************************************)
(* explain.py: plain-text "explainshell"-like diagrams.                    *)
(*                                                                         *)
(* Strings are sequences of code points (a space is 32, a line feed 10,    *)
(* the box-drawing glyphs are 9472..9599).  A box recipe (a key of the     *)
(* table boxes) is a sequence of direction letters, lower case for a       *)
(* normal edge and upper case for a bold one.                              *)
(***************************************************************************)
EXTENDS Integers, Sequences, FiniteSets

(***************************************************************************)
(* Bounds of the model.                                                    *)
(***************************************************************************)
\* longest token sequence of the small inputs
MaxTokens == 3
\* longest token text of the small inputs
MaxLen == 2
\* rightmost lane column of the lane sets handed to resolve directly
MaxCol == 2
\* longest item list handed to box directly
MaxItems == 4

(***************************************************************************)
(* Characters.                                                             *)
(***************************************************************************)
SP == 32
NL == 10

\* the value of a missing comment: None and '' are both false for hasComment
None == <<>>

Max(a, b) == IF a >= b THEN a ELSE b

\* F(v), with v evaluated once and its value bound to the parameter of F
With(v, F(_)) == CHOOSE r \in {F(x) : x \in {v}} : TRUE

\* ' ' * n (empty when n <= 0)
Spaces(n) == [i \in 1..n |-> SP]

\* c * n for a one-character string c
Repeat(c, n) == [i \in 1..n |-> c]

\* ''.join(items) for a sequence of strings; concatenation is associative
\* and is folded by halves to keep the evaluation shallow
RECURSIVE Concat(_)
Concat(items) ==
    With(items, LAMBDA its :
        IF its = <<>> THEN <<>>
        ELSE IF Len(its) = 1 THEN its[1]
        ELSE Concat(SubSeq(its, 1, Len(its) \div 2))
             \o Concat(SubSeq(its, (Len(its) \div 2) + 1, Len(its))))

\* sep.join(items)
Join(sep, items) ==
    With(items, LAMBDA its :
        Concat([i \in 1..Len(its) |-> IF i = 1 THEN its[i] ELSE sep \o its[i]]))

\* sum(ns) for a sequence of numbers
RECURSIVE Sum(_)
Sum(ns) ==
    With(ns, LAMBDA s :
        IF s = <<>> THEN 0
        ELSE IF Len(s) = 1 THEN s[1]
        ELSE Sum(SubSeq(s, 1, Len(s) \div 2))
             + Sum(SubSeq(s, (Len(s) \div 2) + 1, Len(s))))

(***************************************************************************)
(* The glyph table.                                                        *)
(***************************************************************************)
\* the items of the dict literal boxes, in source order: (recipe, glyph)
boxItems ==
    <<
      <<<<"e","w">>, 9472>>, <<<<"E","W">>, 9473>>, <<<<"n","s">>, 9474>>,
      <<<<"N","S">>, 9475>>, <<<<"s","e">>, 9484>>, <<<<"s","E">>, 9485>>,
      <<<<"S","e">>, 9486>>, <<<<"S","E">>, 9487>>, <<<<"s","w">>, 9488>>,
      <<<<"s","W">>, 9489>>, <<<<"S","w">>, 9490>>, <<<<"S","W">>, 9491>>,
      <<<<"n","e">>, 9492>>, <<<<"n","E">>, 9493>>, <<<<"N","e">>, 9494>>,
      <<<<"N","E">>, 9495>>, <<<<"n","w">>, 9496>>, <<<<"n","W">>, 9497>>,
      <<<<"N","w">>, 9498>>, <<<<"N","W">>, 9499>>, <<<<"n","s","e">>, 9500>>,
      <<<<"n","s","E">>, 9501>>, <<<<"N","s","e">>, 9502>>, <<<<"n","S","e">>, 9503>>,
      <<<<"N","S","e">>, 9504>>, <<<<"N","s","E">>, 9505>>, <<<<"n","S","E">>, 9506>>,
      <<<<"N","S","E">>, 9507>>, <<<<"n","s","w">>, 9508>>, <<<<"n","s","W">>, 9509>>,
      <<<<"N","s","w">>, 9510>>, <<<<"n","S","w">>, 9511>>, <<<<"N","S","w">>, 9512>>,
      <<<<"N","s","W">>, 9513>>, <<<<"n","S","W">>, 9514>>, <<<<"N","S","W">>, 9515>>,
      <<<<"s","e","w">>, 9516>>, <<<<"s","e","W">>, 9517>>, <<<<"s","E","w">>, 9518>>,
      <<<<"s","E","W">>, 9519>>, <<<<"S","e","w">>, 9520>>, <<<<"S","e","W">>, 9521>>,
      <<<<"S","E","w">>, 9522>>, <<<<"S","E","W">>, 9523>>, <<<<"n","e","w">>, 9524>>,
      <<<<"n","e","W">>, 9525>>, <<<<"n","E","w">>, 9526>>, <<<<"n","E","W">>, 9527>>,
      <<<<"N","e","w">>, 9528>>, <<<<"N","e","W">>, 9529>>, <<<<"N","E","w">>, 9530>>,
      <<<<"N","E","W">>, 9531>>, <<<<"n","s","e","w">>, 9532>>, <<<<"n","s","e","W">>, 9533>>,
      <<<<"n","s","E","w">>, 9534>>, <<<<"n","s","E","W">>, 9535>>, <<<<"N","s","e","w">>, 9536>>,
      <<<<"n","S","e","w">>, 9537>>, <<<<"N","S","e","w">>, 9538>>, <<<<"N","s","e","W">>, 9539>>,
      <<<<"N","s","E","w">>, 9540>>, <<<<"n","S","e","W">>, 9541>>, <<<<"n","S","E","w">>, 9542>>,
      <<<<"N","s","E","W">>, 9543>>, <<<<"n","S","E","W">>, 9544>>, <<<<"N","S","e","W">>, 9545>>,
      <<<<"N","S","E","w">>, 9546>>, <<<<"N","S","E","W">>, 9547>>, <<<<"w">>, 9588>>,
      <<<<"n">>, 9589>>, <<<<"e">>, 9590>>, <<<<"s">>, 9591>>,
      <<<<"W">>, 9592>>, <<<<"N">>, 9593>>, <<<<"E">>, 9594>>,
      <<<<"S">>, 9595>>, <<<<"E","w">>, 9596>>, <<<<"n","S">>, 9597>>,
      <<<<"e","W">>, 9598>>, <<<<"N","s">>, 9599>>
    >>

\* boxes: the dict of those items
boxes ==
    [k \in {boxItems[i][1] : i \in 1..Len(boxItems)} |->
        boxItems[CHOOSE i \in 1..Len(boxItems) :
                    /\ boxItems[i][1] = k
                    /\ \A j \in (i + 1)..Len(boxItems) : boxItems[j][1] # k][2]]

\* box2recipe = {v: k for (k,v) in boxes.items()}; with two keys of one
\* glyph the dict keeps one of them
box2recipe ==
    [g \in {boxes[k] : k \in DOMAIN boxes} |->
        CHOOSE k \in DOMAIN boxes : boxes[k] = g]

\* str.lower / str.upper on one direction letter
lowerc(d) ==
    CASE d = "N" -> "n" [] d = "S" -> "s" [] d = "E" -> "e" [] d = "W" -> "w"
      [] OTHER -> d

upperc(d) ==
    CASE d = "n" -> "N" [] d = "s" -> "S" [] d = "e" -> "E" [] d = "w" -> "W"
      [] OTHER -> d

\* box.norm on a tuple (dirs, case): dirs.upper() if case else dirs.lower()
norm(dirs, case) ==
    [i \in 1..Len(dirs) |-> IF case THEN upperc(dirs[i]) ELSE lowerc(dirs[i])]

\* box.aux: {**a, b.lower(): b}
roseAux(a, b) ==
    [k \in (DOMAIN a) \cup {lowerc(b)} |-> IF k = lowerc(b) THEN b ELSE a[k]]

\* reduce(aux, dirs, {})
RECURSIVE rose(_)
rose(dirs) ==
    IF dirs = <<>> THEN [k \in {} |-> k]
    ELSE roseAux(rose(SubSeq(dirs, 1, Len(dirs) - 1)), dirs[Len(dirs)])

\* ''.join([rose.get(d, '') for d in order])
roseKey(r, order) ==
    Concat([i \in 1..Len(order) |->
              IF order[i] \in DOMAIN r THEN <<r[order[i]]>> ELSE <<>>])

\* a box that reads the rose in the order n, e, s, w
boxMutant(items) ==
    LET dir == roseKey(rose(Concat(items)), <<"n", "e", "s", "w">>)
    IN  IF dir \in DOMAIN boxes THEN boxes[dir] ELSE SP

\* box(*items), every item already normalised to a recipe string
box(items) ==
    LET dir == roseKey(rose(Concat(items)), <<"n", "s", "e", "w">>)
    IN  IF dir \in DOMAIN boxes THEN boxes[dir] ELSE SP

\* an overlayc whose first argument wins even when it is a space
overlaycMutant(a, b) ==
    IF a = SP THEN a
    ELSE IF b = SP THEN a
    ELSE IF a \notin DOMAIN box2recipe THEN a
    ELSE IF b \notin DOMAIN box2recipe THEN b
    ELSE box(<<box2recipe[a], box2recipe[b]>>)

overlayc(a, b) ==
    IF a = SP THEN b
    ELSE IF b = SP THEN a
    ELSE IF a \notin DOMAIN box2recipe THEN a
    ELSE IF b \notin DOMAIN box2recipe THEN b
    ELSE box(<<box2recipe[a], box2recipe[b]>>)

\* zip_longest(aa, bb, fillvalue=' ') folded with overlayc
overlay2(aa, bb) ==
    With(<<aa, bb>>, LAMBDA p :
        [i \in 1..Max(Len(p[1]), Len(p[2])) |->
            overlayc(IF i <= Len(p[1]) THEN p[1][i] ELSE SP,
                     IF i <= Len(p[2]) THEN p[2][i] ELSE SP)])

\* reduce(overlay2, items, ''): overlay2 is associative with unit '' (the
\* leftmost opaque character of a cell wins, glyphs merge with the later
\* boldness per direction), so the fold is taken by halves to keep the
\* evaluation shallow
RECURSIVE overlay(_)
overlay(items) ==
    With(items, LAMBDA its :
        IF its = <<>> THEN <<>>
        ELSE IF Len(its) = 1 THEN overlay2(<<>>, its[1])
        ELSE overlay2(overlay(SubSeq(its, 1, Len(its) \div 2)),
                      overlay(SubSeq(its, (Len(its) \div 2) + 1, Len(its)))))

drawat(pos, string) == Spaces(pos) \o string

drawhorizontal(a0, b0, pen) ==
    LET a == IF a0 <= b0 THEN a0 ELSE b0
        b == IF a0 <= b0 THEN b0 ELSE a0
        l == b - a
    IN  IF l # 0
        THEN drawat(a, <<box(<<norm(<<"e">>, pen)>>)>>
                       \o Repeat(box(<<norm(<<"e", "w">>, pen)>>), l - 1)
                       \o <<box(<<norm(<<"w">>, pen)>>)>>)
        ELSE <<>>

\* items are lanes: records with pos and pen
drawverticals(point, items) ==
    With(items, LAMBDA its :
        overlay([i \in 1..Len(its) |->
                   drawat(its[i].pos, <<box(<<norm(<<point>>, its[i].pen)>>)>>)]))

(***************************************************************************)
(* reflow: textwrap.wrap per paragraph.                                    *)
(***************************************************************************)
Width == 65

\* text.split("\n")
splitLines(text) ==
    LET cuts == {i \in 1..Len(text) : text[i] = NL}
        n    == Cardinality(cuts)
        cut(k) == IF k = 0 THEN 0
                  ELSE IF k = n + 1 THEN Len(text) + 1
                  ELSE CHOOSE i \in cuts : Cardinality({j \in cuts : j < i}) = k - 1
    IN  [k \in 1..(n + 1) |-> SubSeq(text, cut(k - 1) + 1, cut(k) - 1)]

\* chunk.strip() == ''
isBlank(chunk) == \A i \in 1..Len(chunk) : chunk[i] = SP

\* TextWrapper._split: maximal runs of whitespace and of non-whitespace
splitChunks(para) ==
    LET starts == {i \in 1..Len(para) :
                      i = 1 \/ ((para[i] = SP) # (para[i - 1] = SP))}
        n      == Cardinality(starts)
        start(k) == IF k = n + 1 THEN Len(para) + 1
                    ELSE CHOOSE i \in starts : Cardinality({j \in starts : j < i}) = k - 1
    IN  [k \in 1..n |-> SubSeq(para, start(k), start(k + 1) - 1)]

\* the number of leading chunks the inner loop of _wrap_chunks puts on a line
fitCount(chunks, width) ==
    LET total(k) == Len(Concat(SubSeq(chunks, 1, k)))
    IN  CHOOSE k \in 0..Len(chunks) :
            /\ total(k) <= width
            /\ (k < Len(chunks) => total(k + 1) > width)

\* TextWrapper._wrap_chunks (drop_whitespace, break_long_words), width > 0
RECURSIVE wrapChunks(_, _, _)
wrapChunks(chunks0, width, lines) ==
    IF chunks0 = <<>> THEN lines
    ELSE
      LET chunks == IF isBlank(chunks0[1]) /\ lines # <<>>
                    THEN Tail(chunks0) ELSE chunks0
          k      == fitCount(chunks, width)
          cur    == SubSeq(chunks, 1, k)
          rest   == SubSeq(chunks, k + 1, Len(chunks))
          curLen == Len(Concat(cur))
          long   == rest # <<>> /\ Len(rest[1]) > width
          spaceLeft == IF width < 1 THEN 1 ELSE width - curLen
          cur2   == IF long THEN Append(cur, SubSeq(rest[1], 1, spaceLeft)) ELSE cur
          rest2  == IF long
                    THEN <<SubSeq(rest[1], spaceLeft + 1, Len(rest[1]))>> \o Tail(rest)
                    ELSE rest
          cur3   == IF cur2 # <<>> /\ isBlank(cur2[Len(cur2)])
                    THEN SubSeq(cur2, 1, Len(cur2) - 1) ELSE cur2
          lines2 == IF cur3 # <<>> THEN Append(lines, Concat(cur3)) ELSE lines
      IN  wrapChunks(rest2, width, lines2)

\* a wrap that accepts the width 0
wrapRaisesMutant(width) == width < 0

\* textwrap.wrap raises ValueError("invalid width") unless width > 0
wrapRaises(width) == width <= 0

wrap(para, width) == wrapChunks(splitChunks(para), width, <<>>)

\* flatten([wrap(para, width) for para in text.split("\n")])
reflow(text, width) ==
    LET paras == splitLines(text)
    IN  Concat([i \in 1..Len(paras) |-> wrap(paras[i], width)])

(***************************************************************************)
(* Lanes and instructions.  A lane is a tuple (pos, pen, text, ...) of the *)
(* source, here a record; an instruction is a dict with 'pos', 'to' and,   *)
(* for a terminating one, 'go'.                                            *)
(***************************************************************************)
lane(pos, pen, text) == [pos |-> pos, pen |-> pen, text |-> text]

move(f, t) == [pos |-> f, to |-> t, go |-> FALSE]

go(f, t) == [pos |-> f, to |-> t, go |-> TRUE]

\* {pos: lane for lane in existing}: a later lane of the same pos wins
lastAt(existing, pos) ==
    existing[CHOOSE i \in 1..Len(existing) :
                /\ existing[i].pos = pos
                /\ \A j \in (i + 1)..Len(existing) : existing[j].pos # pos]

pens(existing, pos) == lastAt(existing, pos).pen

texts(existing, pos) == lastAt(existing, pos).text

\* a filter that lets terminating instructions continue as lanes
isMoveMutant(i) == TRUE

\* not 'go' in i
isMove(i) == ~i.go

isGo(i) == i.go

\* [cont(i) for i in instructions if not 'go' in i] + implicit
continuation(existing, instructions) ==
    With(<<existing, instructions>>, LAMBDA a :
        LET explicit == {a[2][i].pos : i \in 1..Len(a[2])}
            implicit == SelectSeq(a[1], LAMBDA l : l.pos \notin explicit)
            moved    == SelectSeq(a[2], isMove)
        IN  [i \in 1..Len(moved) |->
                lane(moved[i].to, pens(a[1], moved[i].pos), texts(a[1], moved[i].pos))]
            \o implicit)

\* a merge that is bold only if every lane is and keeps the last text
mergeMutant(k, v) ==
    lane(k, \A i \in 1..Len(v) : v[i].pen, v[Len(v)].text)

\* resolve.aux: the lane a group of continuations on column k merges into
merge(k, v) ==
    lane(k, \E i \in 1..Len(v) : v[i].pen, v[1].text)

\* sorted(set(ns)) for a set of numbers
sortedSeq(ns) ==
    [n \in 1..Cardinality(ns) |->
        CHOOSE k \in ns : Cardinality({j \in ns : j < k}) = n - 1]

\* [aux(k,v) for (k,v) in groupby(sorted(continuation, key=fst), fst)]: the
\* sort is stable, so every group keeps the order of continuation
nextState(existing, instructions) ==
    With(continuation(existing, instructions), LAMBDA cs :
        With(sortedSeq({cs[i].pos : i \in 1..Len(cs)}), LAMBDA keys :
            [n \in 1..Len(keys) |->
                merge(keys[n], SelectSeq(cs, LAMBDA c : c.pos = keys[n]))]))

\* the three partial rows of resolve: n, ew and s
partialRows(existing, instructions, next) ==
    With(<<existing, instructions>>, LAMBDA a :
        <<drawverticals("n", a[1]),
          overlay([i \in 1..Len(a[2]) |->
                     drawhorizontal(a[2][i].pos, a[2][i].to, pens(a[1], a[2][i].pos))]),
          drawverticals("s", next)>>)

\* the text block of a terminating lane: every wrapped line behind its margin
textBlock(lines, then0, text) ==
    With(<<lines \o <<SP>>, then0, text>>, LAMBDA a :
        With(a[2] \o Spaces(Len(a[1]) - Len(a[2])), LAMBDA then :
            Join(<<NL>>, [j \in 1..Len(a[3]) |->
                            (IF j = 1 THEN a[1] ELSE then) \o a[3][j]])))

\* resolve(existing, instructions, width): lines, nextState, and whether
\* reflow raised
RECURSIVE resolve(_, _, _)
resolve(existing, instructions, width) ==
    With(<<existing, instructions, nextState(existing, instructions)>>, LAMBDA a :
      With(<<overlay(partialRows(a[1], a[2], a[3])), SelectSeq(a[2], isGo)>>, LAMBDA b :
        IF b[2] = <<>>
        THEN [lines |-> b[1], nextState |-> a[3], raised |-> FALSE]
        ELSE IF wrapRaises(width - Len(b[1]) - 1)
        THEN [lines |-> <<>>, nextState |-> a[1], raised |-> TRUE]
        ELSE [lines |-> textBlock(b[1], resolve(a[3], <<>>, Width).lines,
                                  reflow(texts(a[1], b[2][1].pos),
                                         width - Len(b[1]) - 1)),
              nextState |-> a[3],
              raised |-> FALSE]))

(***************************************************************************)
(* The passes.                                                             *)
(***************************************************************************)
VARIABLES
    descs,          \* the module global descs
    tokens,         \* the argument of explain
    pc,             \* where the driver is
    output,         \* o of the (o, x) pair that bind threads through
    data,           \* x of that pair
    passLanes,      \* the lanes argument of toleft / define / resolve
    instructions,   \* the instruction lists resolve_list has still to fold
    rows,           \* the rows resolve_list has accumulated
    stdout,         \* what print has written
    gop, gin, gout  \* a call of box or overlayc: its name, arguments, result

vars == <<descs, tokens, pc, output, data, passLanes, instructions, rows,
          stdout, gop, gin, gout>>

\* normalise_tokens.norm
normTok(token) == [t |-> token.t, c |-> token.c, l |-> Len(token.t), o |-> 0]

\* normalise_tokens.offset
offset(a, b) == [b EXCEPT !.o = a.o + a.l]

\* itertools.accumulate(ntokens, offset): the first token as it is, every
\* later one with the offset and length of its predecessor added up
accumulate(ntokens) ==
    [i \in 1..Len(ntokens) |->
        IF i = 1 THEN ntokens[1]
        ELSE offset([l |-> 0, o |-> Sum([j \in 1..(i - 1) |-> ntokens[j].l])],
                    ntokens[i])]

\* itemgetter(1) used as a truth test
hasComment(ntoken) == ntoken.c # None

\* normalise_tokens(tokens): the comprehension iterates the global descs
normalise_tokens(toks) ==
    LET ntokens == [i \in 1..Len(descs) |-> normTok(descs[i])]
    IN  [header |-> Concat([i \in 1..Len(ntokens) |-> ntokens[i].t]),
         lanes  |-> SelectSeq(accumulate(ntokens), hasComment)]

\* a span whose pivot is one past its end
spanOfMutant(t) ==
    [start |-> t.o, mean |-> t.o + t.l, end |-> t.o + t.l - 1, comment |-> t.c]

\* nmarkers.aux: (o, mean, end, c, None)
spanOf(t) ==
    [start |-> t.o, mean |-> t.o + (t.l \div 2), end |-> t.o + t.l - 1,
     comment |-> t.c]

\* the k-th value of cycle([True, False])
penCycleMutant(k) == (k % 2) = 1

\* the k-th value (k = 1, 2, ...) of cycle([False, True])
penCycle(k) == (k % 2) = 0

\* nmarkers: the lanes at both ends of every span
pre(ts) ==
    Concat([k \in 1..Len(ts) |->
              <<lane(spanOf(ts[k]).start, penCycle(k), spanOf(ts[k]).comment),
                lane(spanOf(ts[k]).end, penCycle(k), spanOf(ts[k]).comment)>>])

\* nmarkers: both ends of every span move to its mean
markerInstructions(ts) ==
    Concat([k \in 1..Len(ts) |->
              <<move(spanOf(ts[k]).start, spanOf(ts[k]).mean),
                move(spanOf(ts[k]).end, spanOf(ts[k]).mean)>>])

nmarkers(ts) == resolve(pre(ts), markerInstructions(ts), Width)

\* a left-packing pass that moves every lane to column 0
toleft_instructionsMutant(lanes) ==
    [idx \in 1..Len(lanes) |-> <<move(lanes[idx].pos, 0)>>]

toleft_instructions(lanes) ==
    [idx \in 1..Len(lanes) |-> <<move(lanes[idx].pos, idx - 1)>>]

\* a definition pass that routes to column len(lanes)
define_instructionsMutant(lanes) ==
    [i \in 1..Len(lanes) |-> <<go(lanes[i].pos, Len(lanes))>>]

define_instructions(lanes) ==
    [i \in 1..Len(lanes) |-> <<go(lanes[i].pos, Len(lanes) + 1)>>]

(***************************************************************************)
(* Inputs.                                                                 *)
(***************************************************************************)
\* a token text of l letters
TokenText(l) == [j \in 1..l |-> 96 + j]

\* the description of the i-th token, when it has one: a long one that
\* wraps, one of two paragraphs, a blank one, a short one
DescOf(i) ==
    LET c == 64 + i
    IN  CASE i % 4 = 1 -> Repeat(c, 31) \o <<SP>> \o Repeat(c, 31)
          [] i % 4 = 2 -> <<c, NL, SP, c, c>>
          [] i % 4 = 3 -> <<SP>>
          [] OTHER     -> <<c, SP, c, c>>

token(l, described, i) ==
    [t |-> TokenText(l), c |-> IF described THEN DescOf(i) ELSE None]

SmallSeqs ==
    UNION {{[i \in 1..n |-> token(ls[i], ds[i], i)] :
               ls \in [1..n -> 0..MaxLen], ds \in [1..n -> BOOLEAN]}
           : n \in 0..MaxTokens}

\* so many annotations that the wrap budget is used up, or all but
WideSeqs ==
    {[i \in 1..n |-> [t |-> <<97>>, c |-> <<120>>]] : n \in {Width - 4, Width - 3}}

ArgSeqs(d) == {d, <<[t |-> <<108, 115>>, c |-> None]>>}

IdleGlyph == gop = "none" /\ gin = <<>> /\ gout = <<>>

Init ==
    /\ \/ descs \in SmallSeqs /\ tokens \in ArgSeqs(descs)
       \/ descs \in WideSeqs /\ tokens = descs
    /\ pc = "start"
    /\ output = <<>>
    /\ data = tokens
    /\ passLanes = <<>>
    /\ instructions = <<>>
    /\ rows = <<>>
    /\ stdout = <<>>
    /\ IdleGlyph

(***************************************************************************)
(* explain: run(tokens, [normalise_tokens, nmarkers, toleft, define]).     *)
(***************************************************************************)
\* bind(t, normalise_tokens)
NormaliseTokens ==
    /\ pc = "start"
    /\ LET r == normalise_tokens(data)
       IN  /\ output' = output \o r.header \o <<NL>>
           /\ data' = r.lanes
    /\ pc' = "normalised"
    /\ UNCHANGED <<descs, tokens, passLanes, instructions, rows, stdout, gop, gin, gout>>

\* bind(t, nmarkers)
NMarkers ==
    /\ pc = "normalised"
    /\ LET r == nmarkers(data)
       IN  /\ output' = output \o r.lines \o <<NL>>
           /\ data' = r.nextState
    /\ pc' = "marked"
    /\ UNCHANGED <<descs, tokens, passLanes, instructions, rows, stdout, gop, gin, gout>>

\* toleft(lanes): resolve_list is entered with the instructions of the pass
Toleft ==
    /\ pc = "marked"
    /\ passLanes' = data
    /\ instructions' = toleft_instructions(data)
    /\ rows' = <<>>
    /\ pc' = "toleft"
    /\ UNCHANGED <<descs, tokens, output, data, stdout, gop, gin, gout>>

\* define(lanes)
Define ==
    /\ pc = "packed"
    /\ passLanes' = data
    /\ instructions' = define_instructions(data)
    /\ rows' = <<>>
    /\ pc' = "define"
    /\ UNCHANGED <<descs, tokens, output, data, stdout, gop, gin, gout>>

\* resolve_list.aux: one step of the reduce
ResolveStep ==
    /\ pc \in {"toleft", "define"}
    /\ instructions # <<>>
    /\ LET r == resolve(data, Head(instructions), Width)
       IN  /\ ~r.raised
           /\ rows' = Append(rows, r.lines)
           /\ data' = r.nextState
    /\ instructions' = Tail(instructions)
    /\ UNCHANGED <<descs, tokens, pc, output, passLanes, stdout, gop, gin, gout>>

\* resolve raises: the exception leaves resolve_list, bind, sequence and run
ResolveRaises ==
    /\ pc \in {"toleft", "define"}
    /\ instructions # <<>>
    /\ resolve(data, Head(instructions), Width).raised
    /\ pc' = "raised"
    /\ UNCHANGED <<descs, tokens, output, data, passLanes, instructions, rows,
                   stdout, gop, gin, gout>>

\* resolve_list returns ('\n'.join(output), lanes) and bind appends it
ResolveListReturns ==
    /\ pc \in {"toleft", "define"}
    /\ instructions = <<>>
    /\ output' = output \o Join(<<NL>>, rows) \o <<NL>>
    /\ pc' = IF pc = "toleft" THEN "packed" ELSE "defined"
    /\ UNCHANGED <<descs, tokens, data, passLanes, instructions, rows, stdout,
                   gop, gin, gout>>

\* run: the output is written once the whole sequence has returned
Run ==
    /\ pc = "defined"
    /\ stdout' = Append(stdout, output \o <<NL>>)
    /\ pc' = "done"
    /\ UNCHANGED <<descs, tokens, output, data, passLanes, instructions, rows,
                   gop, gin, gout>>

Next ==
    \/ NormaliseTokens
    \/ NMarkers
    \/ Toleft
    \/ Define
    \/ ResolveStep
    \/ ResolveRaises
    \/ ResolveListReturns
    \/ Run

Spec == Init /\ [][Next]_vars

(***************************************************************************)
(* The glyph algebra on its own: calls of box and of overlayc.             *)
(***************************************************************************)
Dirs == {"n", "s", "e", "w"}

\* the tuple items (dirs, case) of one direction
Items == {<<d, case>> : d \in Dirs, case \in BOOLEAN}

ItemSeqs == UNION {[1..n -> Items] : n \in 0..MaxItems}

Glyphs == {boxItems[i][2] : i \in 1..Len(boxItems)}

\* two characters that are no box glyphs
TextChars == {97, 98}

Chars == Glyphs \cup {SP} \cup TextChars

GlyphInit ==
    /\ descs = <<>>
    /\ tokens = <<>>
    /\ pc = "glyph"
    /\ output = <<>>
    /\ data = <<>>
    /\ passLanes = <<>>
    /\ instructions = <<>>
    /\ rows = <<>>
    /\ stdout = <<>>
    /\ IdleGlyph

\* box(*items)
Box ==
    /\ pc = "glyph"
    /\ gop = "none"
    /\ \E items \in ItemSeqs :
          /\ gop' = "box"
          /\ gin' = items
          /\ gout' = <<box([i \in 1..Len(items) |-> norm(<<items[i][1]>>, items[i][2])])>>
    /\ UNCHANGED <<descs, tokens, pc, output, data, passLanes, instructions, rows, stdout>>

\* overlayc(a, b), overlayc(b, a) and overlayc(a, a)
OverlayChar ==
    /\ pc = "glyph"
    /\ gop = "none"
    /\ \E a \in Chars, b \in Chars :
          /\ gop' = "overlayc"
          /\ gin' = <<a, b>>
          /\ gout' = <<overlayc(a, b), overlayc(b, a), overlayc(a, a)>>
    /\ UNCHANGED <<descs, tokens, pc, output, data, passLanes, instructions, rows, stdout>>

GlyphNext == Box \/ OverlayChar

SpecGlyph == GlyphInit /\ [][GlyphNext]_vars

(***************************************************************************)
(* resolve on its own: any batch of instructions on any lane set.          *)
(***************************************************************************)
\* lanes at distinct columns in ascending order, as resolve returns them
LaneSets ==
    UNION {{[i \in 1..Cardinality(cols) |->
                lane(sortedSeq(cols)[i], ps[sortedSeq(cols)[i]], <<65 + sortedSeq(cols)[i]>>)]
              : ps \in [cols -> BOOLEAN]}
           : cols \in SUBSET (0..MaxCol)}

\* at most two instructions on lanes that exist, at most one of them a go
Batches(lanes) ==
    LET poss  == {lanes[i].pos : i \in 1..Len(lanes)}
        instr == {move(f, t) : f \in poss, t \in 0..MaxCol}
                 \cup {go(f, t) : f \in poss, t \in 0..MaxCol}
    IN  {b \in UNION {[1..n -> instr] : n \in 0..2} :
            Cardinality({i \in 1..Len(b) : b[i].go}) <= 1}

ResolveInit ==
    /\ descs = <<>>
    /\ tokens = <<>>
    /\ pc = "resolve"
    /\ output = <<>>
    /\ data \in LaneSets
    /\ passLanes = <<>>
    /\ instructions = <<>>
    /\ rows = <<>>
    /\ stdout = <<>>
    /\ IdleGlyph

\* (lines, nextState) = resolve(existing, instructions)
ResolveCall ==
    /\ pc = "resolve"
    /\ instructions = <<>>
    /\ \E batch \in Batches(data) :
          LET r == resolve(data, batch, Width)
          IN  /\ ~r.raised
              /\ passLanes' = data
              /\ instructions' = <<batch>>
              /\ rows' = <<r.lines>>
              /\ data' = r.nextState
    /\ UNCHANGED <<descs, tokens, pc, output, stdout, gop, gin, gout>>

SpecResolve == ResolveInit /\ [][ResolveCall]_vars

(***************************************************************************)
(* What the properties below speak about.                                  *)
(***************************************************************************)
\* the indices, in header order, of the tokens of descs that have a comment
describedIdx == sortedSeq({i \in 1..Len(descs) : descs[i].c # None})

AnnCount == Len(describedIdx)

AnnDesc(k) == descs[describedIdx[k]].c

AnnLen(k) == Len(descs[describedIdx[k]].t)

\* the column at which the k-th described token starts in the header
AnnStart(k) == Sum([j \in 1..(describedIdx[k] - 1) |-> Len(descs[j].t)])

\* no described token is empty
NonEmptySpans == \A k \in 1..AnnCount : AnnLen(k) >= 1

\* the physical lines of a row
PhysicalLines(row) == IF row = <<>> THEN <<>> ELSE splitLines(row)

\* what stands in every physical line of a row from column col on
TextFrom(row, col) ==
    [i \in 1..Len(PhysicalLines(row)) |->
        SubSeq(PhysicalLines(row)[i], col + 1, Len(PhysicalLines(row)[i]))]

\* the wrap budget of a resolve call: width - len(lines) - 1
BudgetOf(existing, batch) ==
    Width - Len(overlay(partialRows(existing, batch, nextState(existing, batch)))) - 1

\* C1: the header normalise_tokens returns is the concatenation, in order,
\* of the texts of the tokens it was passed.
C1_HeaderOfPassedTokens ==
    pc = "normalised" =>
        output = Concat([i \in 1..Len(tokens) |-> tokens[i].t]) \o <<NL>>

C10_SpanOk(k) ==
    LET s == spanOf(data[k])
    IN  /\ s.start = AnnStart(k)
        /\ s.end = s.start + AnnLen(k) - 1
        /\ s.mean = s.start + (AnnLen(k) \div 2)
        /\ s.start <= s.mean
        /\ s.mean <= s.end

C10_Apart(j, k) ==
    /\ spanOf(data[j]).end < spanOf(data[k]).start
    /\ spanOf(data[j]).mean < spanOf(data[k]).mean

C5_LeftPacked ==
    pc \in {"toleft", "packed"} =>
        LET n == Len(passLanes)
            j == Len(passLanes) - Len(instructions)
        IN  /\ Len(rows) = j
            /\ \A i \in 1..Len(instructions) :
                  instructions[i] = <<move(passLanes[j + i].pos, j + i - 1)>>
            /\ Len(data) = n
            /\ \A i \in 1..n :
                  data[i] = lane(IF i <= j THEN i - 1 ELSE passLanes[i].pos,
                                 passLanes[i].pen, passLanes[i].text)
            /\ \A a, b \in 1..n : a < b => data[a].pos < data[b].pos
            /\ pc = "packed" => j = n

\* three lanes, the first not at column 0, have been packed
C5_Witness ==
    /\ pc = "packed"
    /\ Len(data) >= 3
    /\ passLanes[1].pos >= 1
    /\ \E i \in 1..Len(data) : data[i].pen

C9_Instructions(to) ==
    \A i \in 1..Len(instructions) :
        instructions[i] =
            <<go(Len(passLanes) - Len(instructions) + i - 1, to)>>

\* the first line of the r-th definition row draws its leader from the
\* column of its lane to column last, a space follows, and the wrapped text
\* stands behind that margin in every physical line
C9_Row(r, last) ==
    LET ls == PhysicalLines(rows[r])
        budget == Width - (last + 1) - 1
    IN  ls # <<>> =>
          /\ \A c \in (r - 1)..last : ls[1][c + 1] \in Glyphs
          /\ ls[1][last + 1] = box(<<norm(<<"w">>, passLanes[r].pen)>>)
          /\ \A i \in 1..Len(ls) :
                /\ Len(ls[i]) > last + 2
                /\ ls[i][last + 2] = SP
                /\ \A c \in 1..(last + 2) : ls[i][c] \in Glyphs \cup {SP}
          /\ TextFrom(rows[r], last + 2) = reflow(passLanes[r].text, budget)

C4_PackedLane(k) == lane(k - 1, k % 2 = 0, AnnDesc(k))

\* the definition pass as far as it has come: the k-th call has terminated
\* the lane of the k-th annotation and emitted its description, the lanes
\* of the later annotations are untouched
C4_Progress ==
    (pc \in {"define", "defined", "done"} /\ NonEmptySpans) =>
        LET n == AnnCount
            j == Len(rows)
        IN  /\ passLanes = [k \in 1..n |-> C4_PackedLane(k)]
            /\ Len(instructions) = n - j
            /\ data = [i \in 1..(n - j) |-> C4_PackedLane(j + i)]
            /\ \A r \in 1..j :
                  TextFrom(rows[r], n + 3) = reflow(AnnDesc(r), Width - (n + 2) - 1)
            /\ pc \in {"defined", "done"} => (j = n /\ data = <<>>)

\* C4 as amended: on n annotated, non-empty spans with a positive wrap
\* budget, 65 - (n + 2) - 1 > 0, the definition pass makes n resolver calls
\* in header order, the k-th terminating the lane of the k-th annotation
\* and emitting that annotation's description; every call removes the
\* terminated lane alone, and no lane is left after the pass.
C4_DefinitionPass ==
    /\ C4_Progress
    /\ (NonEmptySpans /\ AnnCount <= Width - 4) => pc # "raised"

\* C4 as claimed: the same for every n.
C4_DefinitionPassAnyCount ==
    /\ C4_Progress
    /\ NonEmptySpans => pc # "raised"

\* three annotations, the first of several physical lines, have been defined
C4_Witness ==
    /\ pc = "defined"
    /\ NonEmptySpans
    /\ AnnCount >= 3
    /\ Len(rows) = 3
    /\ Len(PhysicalLines(rows[1])) >= 2

\* C7: a resolve call whose wrap budget is not positive raises instead of
\* emitting a row (the row a definition call has just emitted was wrapped
\* to a positive budget), nothing has been written when it raises, and
\* what is written is the whole diagram, written once.
C7_RaisesBeforeOutput ==
    /\ pc = "raised" =>
          /\ stdout = <<>>
          /\ BudgetOf(data, Head(instructions)) <= 0
    /\ stdout # <<>> => (pc = "done" /\ stdout = <<output \o <<NL>>>>)
    /\ (pc = "define" /\ rows # <<>>) =>
          BudgetOf(SubSeq(passLanes, Len(rows), Len(passLanes)),
                   <<go(passLanes[Len(rows)].pos, Len(passLanes) + 1)>>) > 0

\* resolve has raised after the earlier passes had composed their rows
C7_Witness ==
    /\ pc = "raised"
    /\ output # <<>>
    /\ rows = <<>>
    /\ stdout = <<>>

\* the letters of the recipe of a glyph
RecipeOf(g) == {box2recipe[g][i] : i \in 1..Len(box2recipe[g])}

\* two glyphs give no direction they share a different boldness
SameBoldness(a, b) ==
    \A d \in Dirs :
        /\ ~(d \in RecipeOf(a) /\ upperc(d) \in RecipeOf(b))
        /\ ~(upperc(d) \in RecipeOf(a) /\ d \in RecipeOf(b))

\* the characters a and b for which overlayc(a, b) = overlayc(b, a)
C2_Commute(a, b) ==
    \/ a = b
    \/ a = SP
    \/ b = SP
    \/ (a \in TextChars) # (b \in TextChars)
    \/ (a \in Glyphs /\ b \in Glyphs /\ SameBoldness(a, b))

\* C2 as amended: overlayc(a, a) = a for every character; overlayc(a, b) =
\* overlayc(b, a) exactly when a = b, one of them is a space, exactly one
\* of them is a text character, or both are glyphs that give every
\* direction they share the same boldness.  Of two different text
\* characters the first argument wins, and two glyphs merge into the glyph
\* of all their directions, each as bold as the second argument draws it
\* where it does and as the first draws it elsewhere.
C2_OverlaycLaws ==
    gop = "overlayc" =>
        LET a == gin[1]
            b == gin[2]
        IN  /\ gout[3] = a
            /\ (gout[1] = gout[2]) <=> C2_Commute(a, b)
            /\ (a \in TextChars /\ b # SP) => gout[1] = a
            /\ (a \in Glyphs /\ b \in Glyphs) =>
                  /\ gout[1] \in Glyphs
                  /\ \A d \in Dirs :
                        /\ upperc(d) \in RecipeOf(gout[1]) <=>
                              \/ upperc(d) \in RecipeOf(b)
                              \/ (upperc(d) \in RecipeOf(a) /\ d \notin RecipeOf(b))
                        /\ d \in RecipeOf(gout[1]) <=>
                              \/ d \in RecipeOf(b)
                              \/ (d \in RecipeOf(a) /\ upperc(d) \notin RecipeOf(b))

\* C2 as claimed: overlayc(a, b) = overlayc(b, a) for all characters, and
\* overlayc(a, a) = a for a glyph or a space.
C2_Commutative ==
    gop = "overlayc" =>
        /\ gout[1] = gout[2]
        /\ gin[1] \in Glyphs \cup {SP} => gout[3] = gin[1]

\* two different glyphs, one of them bold, that share a direction merge into
\* a third
C2_Witness ==
    /\ gop = "overlayc"
    /\ gin[1] \in Glyphs
    /\ gin[2] \in Glyphs
    /\ gout[1] \notin {gin[1], gin[2]}
    /\ gout[1] = gout[2]
    /\ \E d \in Dirs : upperc(d) \in RecipeOf(gin[1]) \cap RecipeOf(gin[2])

\* the edges of a call of box: every direction with the boldness the last
\* item on it gives
C3_Edges(items) ==
    [d \in {items[i][1] : i \in 1..Len(items)} |->
        items[CHOOSE i \in 1..Len(items) :
                 /\ items[i][1] = d
                 /\ \A j \in (i + 1)..Len(items) : items[j][1] # d][2]]

\* the table key of an edge set: its letters in the order n, s, e, w
C3_Key(edges) ==
    LET letter(d) == IF d \in DOMAIN edges
                     THEN <<IF edges[d] THEN upperc(d) ELSE d>>
                     ELSE <<>>
    IN  letter("n") \o letter("s") \o letter("e") \o letter("w")

\* every edge set: a subset of the directions with a boldness each
C3_EdgeSets == UNION {[ds -> BOOLEAN] : ds \in SUBSET Dirs}

\* C3: box yields a space for the empty edge set and, for every other edge
\* set, the glyph the table holds under the key of that edge set, never the
\* fallback; box2recipe leads back from the glyph to the key, and no other
\* edge set has the same glyph.
C3_BoxTotalInjective ==
    gop = "box" =>
        LET edges == C3_Edges(gin)
            key   == C3_Key(C3_Edges(gin))
        IN  /\ (DOMAIN edges = {}) => gout[1] = SP
            /\ (DOMAIN edges # {}) =>
                  /\ key \in DOMAIN boxes
                  /\ gout[1] = boxes[key]
                  /\ gout[1] # SP
                  /\ box2recipe[gout[1]] = key
                  /\ \A other \in C3_EdgeSets :
                        (other # edges /\ DOMAIN other # {}) =>
                            /\ C3_Key(other) \in DOMAIN boxes
                            /\ boxes[C3_Key(other)] # gout[1]

\* box has drawn all four directions, some bold and some not
C3_Witness ==
    /\ gop = "box"
    /\ DOMAIN C3_Edges(gin) = Dirs
    /\ \E d, e \in Dirs : C3_Edges(gin)[d] /\ ~C3_Edges(gin)[e]
    /\ gout[1] \in Glyphs

\* the instructions of the batch of the call that move a lane to column c,
\* in the order of the batch
C8_Movers(c) ==
    SelectSeq(instructions[1], LAMBDA i : ~i.go /\ i.to = c)

\* the lanes the batch leaves in place at column c
C8_Held(c) ==
    SelectSeq(passLanes, LAMBDA l :
        l.pos = c /\ \A i \in 1..Len(instructions[1]) : instructions[1][i].pos # c)

\* the lanes that arrive at column c, in the order of the lanes
C8_Arrivals(c) ==
    SelectSeq(passLanes, LAMBDA l :
        \/ \E i \in 1..Len(C8_Movers(c)) : C8_Movers(c)[i].pos = l.pos
        \/ Len(C8_Held(c)) > 0 /\ C8_Held(c)[1] = l)

C8_Columns ==
    {c \in 0..MaxCol : Len(C8_Movers(c)) + Len(C8_Held(c)) > 0}

\* the next lane set has one lane on every column a lane arrives at, bold
\* if and only if a lane arriving there is
C8_OneLanePerColumn ==
    /\ {data[i].pos : i \in 1..Len(data)} = C8_Columns
    /\ \A i, j \in 1..Len(data) : i < j => data[i].pos < data[j].pos
    /\ \A i \in 1..Len(data) :
          data[i].pen <=> \E k \in 1..Len(C8_Arrivals(data[i].pos)) :
                              C8_Arrivals(data[i].pos)[k].pen

\* C8 as amended: the lanes arriving at one column merge into one lane,
\* bold if and only if one of them is, whose text is that of the lane the
\* first instruction of the batch moving a lane there moves, and that of
\* the lane held there when no instruction moves a lane there; moved lanes
\* come before the held lane whatever their columns.
C8_MergeMovedFirst ==
    (pc = "resolve" /\ instructions # <<>>) =>
        /\ C8_OneLanePerColumn
        /\ \A i \in 1..Len(data) :
              data[i].text =
                  IF C8_Movers(data[i].pos) # <<>>
                  THEN texts(passLanes, C8_Movers(data[i].pos)[1].pos)
                  ELSE C8_Held(data[i].pos)[1].text

\* C8 as claimed: the text is that of the first arriving lane in the order
\* of the lanes.
C8_MergeLaneOrder ==
    (pc = "resolve" /\ instructions # <<>>) =>
        /\ C8_OneLanePerColumn
        /\ \A i \in 1..Len(data) :
              data[i].text = C8_Arrivals(data[i].pos)[1].text

\* a bold lane has been moved onto a lane held to its left that is not bold
C8_Witness ==
    /\ pc = "resolve"
    /\ instructions # <<>>
    /\ \E i \in 1..Len(data) :
          /\ Len(C8_Held(data[i].pos)) = 1
          /\ Len(C8_Movers(data[i].pos)) = 1
          /\ ~C8_Held(data[i].pos)[1].pen
          /\ C8_Movers(data[i].pos)[1].pos > data[i].pos
          /\ data[i].pen
          /\ data[i].text # C8_Held(data[i].pos)[1].text

====
